---------------------------- MODULE Spec2Model ----------------------------
(***************************************************************************)
(* A model of plex_playlist.py: the keyword matcher, the two selection     *)
(* procedures, create_or_update_playlist and the create command, run       *)
(* against a Plex server whose library and playlists are the state.        *)
(*                                                                         *)
(* Text is a sequence of one-letter strings over Alphabet.  An optional   *)
(* Python value is None (no value) or Some(v).                             *)
(***************************************************************************)
EXTENDS Integers, Sequences, FiniteSets, TLC

VARIABLES
    library,    \* plex.library.sections(): the server's sections, in order
    playlists,  \* plex.playlists(): the server's playlists, in order
    trace,      \* the last operation's prompts and playlist requests, in order
    call        \* the last operation: its function, arguments and result

vars == <<library, playlists, trace, call>>

(***************************************************************************)
(* Bounds of the model.                                                    *)
(***************************************************************************)
MaxTitleLen == 2
MaxSummaryLen == 2
MaxNodes == 5
MaxMusicalNodes == 5
MaxCreateNodes == 3
MaxItems == 2

(***************************************************************************)
(* Python values.                                                          *)
(***************************************************************************)
None == <<>>
Some(v) == <<v>>

Alphabet == {"a", "b", "A", "B", " "}

\* str.lower() on one character
Lower(c) == CASE c = "A" -> "a" [] c = "B" -> "b" [] OTHER -> c

\* str.lower()
LowerStr(s) == [i \in 1..Len(s) |-> Lower(s[i])]

\* `needle in hay` on strings: needle occurs as a contiguous substring
Contains(needle, hay) ==
    \E i \in 0..(Len(hay) - Len(needle)) :
        SubSeq(hay, i + 1, i + Len(needle)) = needle

\* `x or ""` for an attribute that is None or a string
OrEmpty(x) == IF x = None \/ x[1] = <<>> THEN <<>> ELSE x[1]

\* every sequence over S of length at most n
SeqsUpTo(S, n) == UNION {[1..k -> S] : k \in 0..n}

Range(s) == {s[i] : i \in 1..Len(s)}

(***************************************************************************)
(* THEMES: each theme's keywords and exclusions, all lower case as in the  *)
(* source table.  The letters stand for the table's words; the shapes are  *)
(* the table's: an exclusion that contains a keyword ("chinese new year"   *)
(* and "new year"), a keyword with a space in it, an empty exclusion list. *)
(***************************************************************************)
THEMES ==
    [christmas |-> [keywords |-> << <<"a">>, <<"b", "b">> >>,
                    exclude  |-> << <<"b", "a">>, <<"a", "a">> >>],
     newyears  |-> [keywords |-> << <<"a", " ", "b">>, <<"b", "b">> >>,
                    exclude  |-> << <<"b", "a", " ", "b">> >>],
     hanukkah  |-> [keywords |-> << <<"a", "b">>, <<"b", "a">> >>,
                    exclude  |-> << >>]]

\* the loop `for k in list: if k.lower() in combined: return ...`:
\* TRUE when the loop returns at some element, FALSE when it falls through
RECURSIVE AnyIn(_, _)
AnyIn(list, combined) ==
    IF list = <<>> THEN FALSE
    ELSE IF Contains(LowerStr(Head(list)), combined) THEN TRUE
    ELSE AnyIn(Tail(list), combined)

\* a faulty variant: the keywords are looked at before the exclusions
matches_theme_keywords_first(keywords, exclude, title, summary) ==
    LET combined == LowerStr(title \o <<" ">> \o summary)
    IN  IF AnyIn(keywords, combined) THEN TRUE
        ELSE FALSE

\* matches_theme, a closure over the theme's keywords and exclude
matches_theme(keywords, exclude, title, summary) ==
    LET combined == LowerStr(title \o <<" ">> \o summary)
    IN  IF AnyIn(exclude, combined) THEN FALSE
        ELSE IF AnyIn(keywords, combined) THEN TRUE
        ELSE FALSE

(***************************************************************************)
(* find_themed_content.  A section is [type, all]; a show of a show        *)
(* section is [title, episodes]; an episode is [grandparentTitle, title,   *)
(* summary]; a movie is [title, summary].  title and summary are optional. *)
(***************************************************************************)
\* for episode in show.episodes(): if matches_theme(...): items.append(episode)
RECURSIVE ScanEpisodes(_, _, _)
ScanEpisodes(episodes, keywords, exclude) ==
    IF episodes = <<>> THEN <<>>
    ELSE LET episode == Head(episodes)
             title == OrEmpty(episode.title)
             summary == OrEmpty(episode.summary)
         IN  (IF matches_theme(keywords, exclude, title, summary)
                 THEN <<episode>> ELSE <<>>)
             \o ScanEpisodes(Tail(episodes), keywords, exclude)

\* for show in section.all(): for episode in show.episodes(): ...
RECURSIVE ScanShows(_, _, _)
ScanShows(shows, keywords, exclude) ==
    IF shows = <<>> THEN <<>>
    ELSE ScanEpisodes(Head(shows).episodes, keywords, exclude)
         \o ScanShows(Tail(shows), keywords, exclude)

\* for section in plex.library.sections(): if section.type == 'show': ...
RECURSIVE ScanShowSections(_, _, _)
ScanShowSections(sections, keywords, exclude) ==
    IF sections = <<>> THEN <<>>
    ELSE (IF Head(sections).type = "show"
             THEN ScanShows(Head(sections).all, keywords, exclude)
             ELSE <<>>)
         \o ScanShowSections(Tail(sections), keywords, exclude)

\* for movie in section.all(): if matches_theme(...): items.append(movie)
RECURSIVE ScanMovies(_, _, _)
ScanMovies(movies, keywords, exclude) ==
    IF movies = <<>> THEN <<>>
    ELSE LET movie == Head(movies)
             title == OrEmpty(movie.title)
             summary == OrEmpty(movie.summary)
         IN  (IF matches_theme(keywords, exclude, title, summary)
                 THEN <<movie>> ELSE <<>>)
             \o ScanMovies(Tail(movies), keywords, exclude)

\* for section in plex.library.sections(): if section.type == 'movie': ...
RECURSIVE ScanMovieSections(_, _, _)
ScanMovieSections(sections, keywords, exclude) ==
    IF sections = <<>> THEN <<>>
    ELSE (IF Head(sections).type = "movie"
             THEN ScanMovies(Head(sections).all, keywords, exclude)
             ELSE <<>>)
         \o ScanMovieSections(Tail(sections), keywords, exclude)

\* a faulty variant: one pass over the sections, each scanned where it stands
RECURSIVE ScanAllSections(_, _, _, _, _)
ScanAllSections(sections, keywords, exclude, include_movies, include_tv) ==
    IF sections = <<>> THEN <<>>
    ELSE (IF Head(sections).type = "show" /\ include_tv
             THEN ScanShows(Head(sections).all, keywords, exclude)
          ELSE IF Head(sections).type = "movie" /\ include_movies
             THEN ScanMovies(Head(sections).all, keywords, exclude)
          ELSE <<>>)
         \o ScanAllSections(Tail(sections), keywords, exclude,
                            include_movies, include_tv)

find_themed_content_one_pass(sections, theme_name, include_movies, include_tv) ==
    ScanAllSections(sections, THEMES[theme_name].keywords,
                    THEMES[theme_name].exclude, include_movies, include_tv)

\* find_themed_content for a theme_name of THEMES (any other exits the process)
find_themed_content(sections, theme_name, include_movies, include_tv) ==
    LET theme == THEMES[theme_name]
        keywords == theme.keywords
        exclude == theme.exclude
        tv_items == IF include_tv
                       THEN ScanShowSections(sections, keywords, exclude)
                       ELSE <<>>
        movie_items == IF include_movies
                          THEN ScanMovieSections(sections, keywords, exclude)
                          ELSE <<>>
    IN  tv_items \o movie_items

(***************************************************************************)
(* find_musical_episodes.  The tables keep the source's shape: the second  *)
(* fragment of Psych occurs inside the first ("Psych: The Musical" and     *)
(* "The Musical"), fragments are mixed case, no show is in both tables.    *)
(***************************************************************************)
MUSICAL_EPISODES ==
    [Psych  |-> << <<"A", "B">>, <<"B">> >>,
     Scrubs |-> << <<"B", " ", "a">> >>]

MUSICAL_SERIES == <<"Glee", "Smash">>

\* a faulty variant: no break, the episode is appended once per matching fragment
RECURSIVE TargetLoopNoBreak(_, _)
TargetLoopNoBreak(target_titles, episode) ==
    IF target_titles = <<>> THEN <<>>
    ELSE IF Contains(LowerStr(Head(target_titles)),
                     LowerStr(OrEmpty(episode.title)))
         THEN <<episode>> \o TargetLoopNoBreak(Tail(target_titles), episode)
         ELSE TargetLoopNoBreak(Tail(target_titles), episode)

\* for target in target_titles: if target.lower() in ep_title.lower():
\*     items.append(episode); break
RECURSIVE TargetLoop(_, _)
TargetLoop(target_titles, episode) ==
    IF target_titles = <<>> THEN <<>>
    ELSE LET ep_title == OrEmpty(episode.title)
         IN  IF Contains(LowerStr(Head(target_titles)), LowerStr(ep_title))
                THEN <<episode>>
                ELSE TargetLoop(Tail(target_titles), episode)

\* for episode in show.episodes(): ...
RECURSIVE SpecificEpisodes(_, _)
SpecificEpisodes(episodes, target_titles) ==
    IF episodes = <<>> THEN <<>>
    ELSE TargetLoop(target_titles, Head(episodes))
         \o SpecificEpisodes(Tail(episodes), target_titles)

\* a faulty variant: a musical series contributes its first episode only
SeriesEpisodesFirstOnly(show) ==
    IF show.episodes = <<>> THEN <<>> ELSE <<Head(show.episodes)>>

\* episodes = show.episodes(); items.extend(episodes)
SeriesEpisodes(show) == show.episodes

\* for show in section.all(): series, else specific episodes, else nothing
RECURSIVE MusicalShows(_)
MusicalShows(shows) ==
    IF shows = <<>> THEN <<>>
    ELSE LET show == Head(shows)
             show_title == show.title
         IN  (IF show_title \in Range(MUSICAL_SERIES)
                 THEN SeriesEpisodes(show)
              ELSE IF show_title \in DOMAIN MUSICAL_EPISODES
                 THEN SpecificEpisodes(show.episodes, MUSICAL_EPISODES[show_title])
              ELSE <<>>)
             \o MusicalShows(Tail(shows))

\* for section in plex.library.sections(): if section.type != 'show': continue
RECURSIVE find_musical_episodes(_)
find_musical_episodes(sections) ==
    IF sections = <<>> THEN <<>>
    ELSE (IF Head(sections).type # "show" THEN <<>>
          ELSE MusicalShows(Head(sections).all))
         \o find_musical_episodes(Tail(sections))

(***************************************************************************)
(* The matcher alone, on every title and summary within the bounds.        *)
(***************************************************************************)
NoCall == [fn |-> "none"]

InitIdle ==
    /\ library = <<>>
    /\ playlists = <<>>
    /\ trace = <<>>
    /\ call = NoCall

MatchesTheme ==
    /\ call = NoCall
    /\ \E theme_name \in DOMAIN THEMES,
          title \in SeqsUpTo(Alphabet, MaxTitleLen),
          summary \in SeqsUpTo(Alphabet, MaxSummaryLen) :
          call' = [fn |-> "matches_theme",
                   theme |-> theme_name,
                   title |-> title,
                   summary |-> summary,
                   ret |-> matches_theme(THEMES[theme_name].keywords,
                                         THEMES[theme_name].exclude,
                                         title, summary)]
    /\ UNCHANGED <<library, playlists, trace>>

SpecMatch == InitIdle /\ [][MatchesTheme]_vars


(***************************************************************************)
(* The server's library, as its owner fills it: a section, a show in the   *)
(* last section, an episode in the last show, a movie in the last section. *)
(* The program only reads it.                                              *)
(***************************************************************************)
RECURSIVE ShowsSize(_)
ShowsSize(shows) ==
    IF shows = <<>> THEN 0
    ELSE 1 + Len(Head(shows).episodes) + ShowsSize(Tail(shows))

\* the number of sections, shows, episodes and movies
RECURSIVE LibrarySize(_)
LibrarySize(sections) ==
    IF sections = <<>> THEN 0
    ELSE 1 + (IF Head(sections).type = "show"
                 THEN ShowsSize(Head(sections).all)
                 ELSE Len(Head(sections).all))
           + LibrarySize(Tail(sections))

AddSection(type, max) ==
    /\ call = NoCall
    /\ LibrarySize(library) < max
    /\ library' = Append(library, [type |-> type, all |-> <<>>])
    /\ UNCHANGED <<playlists, trace, call>>

AddShow(show_title, max) ==
    /\ call = NoCall
    /\ LibrarySize(library) < max
    /\ library # <<>>
    /\ library[Len(library)].type = "show"
    /\ library' = [library EXCEPT ![Len(library)].all =
                       Append(@, [title |-> show_title, episodes |-> <<>>])]
    /\ UNCHANGED <<playlists, trace, call>>

AddEpisode(title, summary, max) ==
    /\ call = NoCall
    /\ LibrarySize(library) < max
    /\ library # <<>>
    /\ library[Len(library)].type = "show"
    /\ library[Len(library)].all # <<>>
    /\ LET shows == library[Len(library)].all
           show == shows[Len(shows)]
           episode == [grandparentTitle |-> show.title,
                       title |-> title, summary |-> summary]
       IN  library' = [library EXCEPT ![Len(library)].all[Len(shows)].episodes =
                           Append(@, episode)]
    /\ UNCHANGED <<playlists, trace, call>>

AddMovie(title, summary, max) ==
    /\ call = NoCall
    /\ LibrarySize(library) < max
    /\ library # <<>>
    /\ library[Len(library)].type = "movie"
    /\ library' = [library EXCEPT ![Len(library)].all =
                       Append(@, [title |-> title, summary |-> summary])]
    /\ UNCHANGED <<playlists, trace, call>>

\* the section types of the libraries explored
SectionTypes == {"show", "movie", "artist"}

(***************************************************************************)
(* find_themed_content on every library within the bounds.                 *)
(***************************************************************************)
\* title and summary of the episodes and movies of the libraries explored:
\* two that match christmas (one by its upper-case title, one by its summary)
\* and one whose keyword is overridden by an exclusion
ThemedMedia ==
    { <<Some(<<"A">>), None>>,
      <<None, Some(<<"b", "b">>)>>,
      <<Some(<<"b", "a">>), Some(<<>>)>> }

ThemedShows == {"Lost"}

FindThemedContent ==
    /\ call = NoCall
    /\ \E theme_name \in DOMAIN THEMES, include_movies \in BOOLEAN,
          include_tv \in BOOLEAN :
          call' = [fn |-> "find_themed_content",
                   theme |-> theme_name,
                   include_movies |-> include_movies,
                   include_tv |-> include_tv,
                   ret |-> find_themed_content(library, theme_name,
                                               include_movies, include_tv)]
    /\ UNCHANGED <<library, playlists, trace>>

NextThemed ==
    \/ \E type \in SectionTypes : AddSection(type, MaxNodes)
    \/ \E show_title \in ThemedShows : AddShow(show_title, MaxNodes)
    \/ \E m \in ThemedMedia : AddEpisode(m[1], m[2], MaxNodes)
    \/ \E m \in ThemedMedia : AddMovie(m[1], m[2], MaxNodes)
    \/ FindThemedContent

SpecThemed == InitIdle /\ [][NextThemed]_vars

(***************************************************************************)
(* find_musical_episodes on every library within the bounds.               *)
(***************************************************************************)
\* episode titles: in both fragments of Psych, in its second only, in the
\* fragment of Scrubs, in none, and no title
MusicalTitles ==
    { Some(<<"a", "b">>), Some(<<"b">>), Some(<<"B", " ", "A">>),
      Some(<<"a">>), None }

MusicalShowTitles == {"Glee", "Psych", "Scrubs", "Lost"}

FindMusicalEpisodes ==
    /\ call = NoCall
    /\ call' = [fn |-> "find_musical_episodes",
                ret |-> find_musical_episodes(library)]
    /\ UNCHANGED <<library, playlists, trace>>

NextMusical ==
    \/ \E type \in SectionTypes : AddSection(type, MaxMusicalNodes)
    \/ \E show_title \in MusicalShowTitles : AddShow(show_title, MaxMusicalNodes)
    \/ \E title \in MusicalTitles : AddEpisode(title, None, MaxMusicalNodes)
    \/ \E title \in MusicalTitles : AddMovie(title, None, MaxMusicalNodes)
    \/ FindMusicalEpisodes

SpecMusical == InitIdle /\ [][NextMusical]_vars

(***************************************************************************)
(* create_or_update_playlist.  A playlist is [title, items]; plex is the   *)
(* server as the function sees it: [playlists, trace].  Every playlist     *)
(* explored holds at least one item, as those this program creates do.     *)
(***************************************************************************)
\* for playlist in plex.playlists(): if playlist.title == name: existing = ...; break
\* (the position of the playlist found, for None when there is none)
RECURSIVE FindExisting(_, _, _)
FindExisting(pls, name, i) ==
    IF i > Len(pls) THEN None
    ELSE IF pls[i].title = name THEN Some(i)
    ELSE FindExisting(pls, name, i + 1)

\* existing.delete(): the server drops that playlist
Delete(plex, i) ==
    [playlists |-> SubSeq(plex.playlists, 1, i - 1)
                   \o SubSeq(plex.playlists, i + 1, Len(plex.playlists)),
     trace |-> Append(plex.trace, [op |-> "delete",
                                   title |-> plex.playlists[i].title,
                                   playlist |-> plex.playlists[i]])]

\* plex.createPlaylist(name, items=items): the server adds a playlist
CreatePlaylist(plex, name, items) ==
    [playlists |-> Append(plex.playlists, [title |-> name, items |-> items]),
     trace |-> Append(plex.trace, [op |-> "create", title |-> name,
                                   items |-> items])]

\* a faulty variant: the new playlist is created first, the old one deleted after
create_or_update_playlist_create_first(plex, name, items) ==
    LET existing == FindExisting(plex.playlists, name, 1)
        created == IF items # <<>> THEN CreatePlaylist(plex, name, items) ELSE plex
        after == IF existing # None THEN Delete(created, existing[1]) ELSE created
    IN  [plex |-> after,
         ret |-> IF items # <<>> THEN Some([title |-> name, items |-> items])
                 ELSE None]

\* a faulty variant: the existing playlist is never deleted
create_or_update_playlist_no_delete(plex, name, items) ==
    IF items # <<>>
       THEN [plex |-> CreatePlaylist(plex, name, items),
             ret |-> Some([title |-> name, items |-> items])]
       ELSE [plex |-> plex, ret |-> None]

\* create_or_update_playlist: the server afterwards and the value returned
create_or_update_playlist(plex, name, items) ==
    LET existing == FindExisting(plex.playlists, name, 1)
        after_delete == IF existing # None THEN Delete(plex, existing[1]) ELSE plex
    IN  IF items # <<>>
           THEN [plex |-> CreatePlaylist(after_delete, name, items),
                 ret |-> Some([title |-> name, items |-> items])]
           ELSE [plex |-> after_delete, ret |-> None]

(***************************************************************************)
(* create_or_update_playlist called again and again on a server whose      *)
(* playlists have distinct titles to begin with.                           *)
(***************************************************************************)
PlaylistNames == {"Mix", "Christmas Episodes"}

PlaylistMedia ==
    { [title |-> Some(<<"A">>), summary |-> None],
      [title |-> Some(<<"b", "b">>), summary |-> Some(<<"a">>)] }

UniqueTitles(pls) ==
    \A i, j \in 1..Len(pls) : pls[i].title = pls[j].title => i = j

InitialPlaylists ==
    {pls \in SeqsUpTo([title : PlaylistNames,
                       items : SeqsUpTo(PlaylistMedia, MaxItems) \ {<<>>}],
                      Cardinality(PlaylistNames)) : UniqueTitles(pls)}

InitPlaylists ==
    /\ library = <<>>
    /\ playlists \in InitialPlaylists
    /\ trace = <<>>
    /\ call = NoCall

CreateOrUpdatePlaylist ==
    \E name \in PlaylistNames, items \in SeqsUpTo(PlaylistMedia, MaxItems) :
        LET r == create_or_update_playlist([playlists |-> playlists, trace |-> <<>>],
                                           name, items)
        IN  /\ playlists' = r.plex.playlists
            /\ trace' = r.plex.trace
            /\ call' = [fn |-> "create_or_update_playlist",
                        name |-> name, items |-> items,
                        before |-> playlists, ret |-> r.ret]
            /\ UNCHANGED library

SpecPlaylist == InitPlaylists /\ [][CreateOrUpdatePlaylist]_vars

(***************************************************************************)
(* The create command: one run against a server with a library and         *)
(* playlists of its own.  The run asks the user nothing: its trace holds   *)
(* the playlist requests only.                                             *)
(***************************************************************************)
\* theme.title() for the values --theme accepts here
Title(theme) ==
    CASE theme = "christmas" -> "Christmas"
      [] theme = "newyears" -> "Newyears"
      [] theme = "hanukkah" -> "Hanukkah"
      [] theme = "musical" -> "Musical"

\* name or f"{theme.title()} Episodes"
PlaylistName(name, theme) ==
    IF name = None \/ name[1] = "" THEN Title(theme) \o " Episodes" ELSE name[1]

\* the selection step of create
SelectItems(sections, theme, movies, tv) ==
    IF theme = "musical"
       THEN find_musical_episodes(sections)
       ELSE find_themed_content(sections, theme, movies, tv)

\* the outcome of a run that stops before create_or_update_playlist
Stopped(plex, items, out, exit) ==
    [plex |-> plex, items |-> items, called |-> FALSE, out |-> out, exit |-> exit]

\* a faulty variant: an empty selection does not end the run
create_without_empty_check(plex, sections, connects, theme, name, movies, tv, dry_run) ==
    IF ~connects THEN Stopped(plex, <<>>, "connect_failed", 1)
    ELSE
    LET playlist_name == PlaylistName(name, theme)
        items == SelectItems(sections, theme, movies, tv)
    IN  IF dry_run THEN Stopped(plex, items, "dry_run", 0)
        ELSE LET r == create_or_update_playlist(plex, playlist_name, items)
             IN  [plex |-> r.plex, items |-> items, called |-> TRUE,
                  out |-> IF r.ret # None THEN "created" ELSE "failed",
                  exit |-> 0]

\* a faulty variant: --dry-run is ignored
create_ignoring_dry_run(plex, sections, connects, theme, name, movies, tv, dry_run) ==
    IF ~connects THEN Stopped(plex, <<>>, "connect_failed", 1)
    ELSE
    LET playlist_name == PlaylistName(name, theme)
        items == SelectItems(sections, theme, movies, tv)
    IN  IF items = <<>> THEN Stopped(plex, items, "no_content", 0)
        ELSE LET r == create_or_update_playlist(plex, playlist_name, items)
             IN  [plex |-> r.plex, items |-> items, called |-> TRUE,
                  out |-> IF r.ret # None THEN "created" ELSE "failed",
                  exit |-> 0]

\* create: the server afterwards, the items selected, whether
\* create_or_update_playlist was called, the closing message, the exit code
create(plex, sections, connects, theme, name, movies, tv, dry_run) ==
    IF ~connects THEN Stopped(plex, <<>>, "connect_failed", 1)
    ELSE
    LET playlist_name == PlaylistName(name, theme)
        items == SelectItems(sections, theme, movies, tv)
    IN  IF items = <<>> THEN Stopped(plex, items, "no_content", 0)
        ELSE IF dry_run THEN Stopped(plex, items, "dry_run", 0)
        ELSE LET r == create_or_update_playlist(plex, playlist_name, items)
             IN  [plex |-> r.plex, items |-> items, called |-> TRUE,
                  out |-> IF r.ret # None THEN "created" ELSE "failed",
                  exit |-> 0]

\* the playlists on the server when the run starts
ServerPlaylists ==
    { <<>>,
      << [title |-> "Christmas Episodes",
          items |-> << [title |-> Some(<<"b", "b">>), summary |-> None] >>] >>,
      << [title |-> "Mix",
          items |-> << [title |-> Some(<<"A">>), summary |-> None] >>],
         [title |-> "Musical Episodes",
          items |-> << [grandparentTitle |-> "Glee",
                        title |-> None, summary |-> None] >>] >> }

\* title and summary of the episodes and movies of the libraries explored:
\* one that matches christmas, one that matches no theme
CreateMedia == { <<Some(<<"A">>), None>>, <<Some(<<"B", " ">>), None>> }

CreateShows == {"Glee", "Lost"}

CreateNames == {None, Some(""), Some("Mix")}

InitServer ==
    /\ library = <<>>
    /\ playlists \in ServerPlaylists
    /\ trace = <<>>
    /\ call = NoCall

Create ==
    /\ call = NoCall
    /\ \E connects \in BOOLEAN, theme \in DOMAIN THEMES \cup {"musical"},
          name \in CreateNames, movies \in BOOLEAN, tv \in BOOLEAN,
          dry_run \in BOOLEAN :
          LET r == create([playlists |-> playlists, trace |-> <<>>], library,
                          connects, theme, name, movies, tv, dry_run)
          IN  /\ playlists' = r.plex.playlists
              /\ trace' = r.plex.trace
              /\ call' = [fn |-> "create", connects |-> connects,
                          theme |-> theme, name |-> name, movies |-> movies,
                          tv |-> tv, dry_run |-> dry_run, before |-> playlists,
                          items |-> r.items, called |-> r.called,
                          out |-> r.out, exit |-> r.exit]
    /\ UNCHANGED library

Next ==
    \/ \E type \in SectionTypes : AddSection(type, MaxCreateNodes)
    \/ \E show_title \in CreateShows : AddShow(show_title, MaxCreateNodes)
    \/ \E m \in CreateMedia : AddEpisode(m[1], m[2], MaxCreateNodes)
    \/ \E m \in CreateMedia : AddMovie(m[1], m[2], MaxCreateNodes)
    \/ Create

Spec == InitServer /\ [][Next]_vars

(***************************************************************************)
(* Claim C5.                                                               *)
(***************************************************************************)
\* the lists with the elements of `list`, in every order
Reorderings(list) ==
    {[i \in 1..Len(list) |-> list[f[i]]] : f \in Permutations(1..Len(list))}

\* the strings that differ from s in letter case only
RECURSIVE CaseVariants(_)
CaseVariants(s) ==
    IF s = <<>> THEN {<<>>}
    ELSE {<<c>> \o t : c \in {d \in Alphabet : Lower(d) = Lower(Head(s))},
                        t \in CaseVariants(Tail(s))}

\* some string of the set occurs in text
Occurs(set, text) == \E k \in set : Contains(k, text)

\* C5 as written: the matcher's result is "no exclusion keyword occurs in the
\* lower-cased concatenation title+summary, and an inclusion keyword does".
\* The code joins title and summary with a space, so this fails.
C5_AsWritten ==
    call.fn = "matches_theme" =>
        LET text == LowerStr(call.title \o call.summary)
        IN  call.ret = (/\ ~Occurs(Range(THEMES[call.theme].exclude), text)
                        /\ Occurs(Range(THEMES[call.theme].keywords), text))

\* C5 amended: matches_theme returns true iff no exclusion keyword occurs in
\* the lower-cased text "title, one space, summary" and an inclusion keyword
\* does; so it is false whenever an exclusion keyword occurs, and the result
\* depends neither on the letter case of title and summary nor on the order
\* of the keyword lists.
C5_MatchesIffIncludedAndNotExcluded ==
    call.fn = "matches_theme" =>
        LET theme == THEMES[call.theme]
            text == LowerStr(call.title \o <<" ">> \o call.summary)
        IN  /\ call.ret = (/\ ~Occurs(Range(theme.exclude), text)
                           /\ Occurs(Range(theme.keywords), text))
            /\ Occurs(Range(theme.exclude), text) => call.ret = FALSE
            /\ \A t \in CaseVariants(call.title) :
                   matches_theme(theme.keywords, theme.exclude, t, call.summary)
                       = call.ret
            /\ \A s \in CaseVariants(call.summary) :
                   matches_theme(theme.keywords, theme.exclude, call.title, s)
                       = call.ret
            /\ \A kws \in Reorderings(theme.keywords), exs \in Reorderings(theme.exclude) :
                   matches_theme(kws, exs, call.title, call.summary) = call.ret

\* an upper-case title in which both an inclusion and an exclusion keyword occur
C5_Witness ==
    /\ call.fn = "matches_theme"
    /\ call.title # LowerStr(call.title)
    /\ LET text == LowerStr(call.title \o <<" ">> \o call.summary)
       IN  /\ Occurs(Range(THEMES[call.theme].exclude), text)
           /\ Occurs(Range(THEMES[call.theme].keywords), text)
    /\ call.ret = FALSE


(***************************************************************************)
(* Claims C6, C7 and C10: what the selections must return, stated over     *)
(* the library as a whole.                                                 *)
(***************************************************************************)
RECURSIVE Flatten(_)
Flatten(seqs) == IF seqs = <<>> THEN <<>> ELSE Head(seqs) \o Flatten(Tail(seqs))

\* the episodes of a show section, show by show
EpisodesOf(section) ==
    Flatten([i \in 1..Len(section.all) |-> section.all[i].episodes])

\* the items enumerated with the sections taken in library order
EnumeratedInLibraryOrder(sections) ==
    Flatten([i \in 1..Len(sections) |->
                IF sections[i].type = "show" THEN EpisodesOf(sections[i])
                ELSE IF sections[i].type = "movie" THEN sections[i].all
                ELSE <<>>])

\* the items enumerated with every show section first, then every movie section
EnumeratedShowsThenMovies(sections, include_movies, include_tv) ==
    Flatten([i \in 1..Len(sections) |->
                IF sections[i].type = "show" /\ include_tv
                   THEN EpisodesOf(sections[i]) ELSE <<>>])
    \o Flatten([i \in 1..Len(sections) |->
                IF sections[i].type = "movie" /\ include_movies
                   THEN sections[i].all ELSE <<>>])

\* the item belongs to the theme
Matches(theme_name, item) ==
    LET text == LowerStr(OrEmpty(item.title) \o <<" ">> \o OrEmpty(item.summary))
    IN  /\ ~Occurs(Range(THEMES[theme_name].exclude), text)
        /\ Occurs(Range(THEMES[theme_name].keywords), text)

Matching(items, theme_name) ==
    SelectSeq(items, LAMBDA item : Matches(theme_name, item))

\* C6 as written: find_themed_content (movies and TV both included) returns
\* the matching items of the enumeration that takes the sections in library
\* order.  The code scans every show section before any movie section.
C6_AsWritten ==
    (call.fn = "find_themed_content" /\ call.include_movies /\ call.include_tv) =>
        call.ret = Matching(EnumeratedInLibraryOrder(library), call.theme)

\* C6 amended: find_themed_content returns exactly the matching items of the
\* enumeration "episodes of every show section in library order (if TV is
\* included), then movies of every movie section in library order (if movies
\* are included)", each as often as it is enumerated, in that order.
C6_MatchesInEnumerationOrder ==
    call.fn = "find_themed_content" =>
        call.ret = Matching(EnumeratedShowsThenMovies(library, call.include_movies,
                                                      call.include_tv),
                            call.theme)

\* a movie section stands before a show section, both hold a match
C6_Witness ==
    /\ call.fn = "find_themed_content"
    /\ \E i, j \in 1..Len(library) :
          /\ i < j
          /\ library[i].type = "movie"
          /\ library[j].type = "show"
          /\ Matching(library[i].all, call.theme) # <<>>
          /\ Matching(EpisodesOf(library[j]), call.theme) # <<>>
    /\ Len(call.ret) >= 2

\* the episodes of the shows titled show_title, in enumeration order
EpisodesOfShowsTitled(sections, show_title) ==
    Flatten([i \in 1..Len(sections) |->
                IF sections[i].type = "show"
                   THEN Flatten([k \in 1..Len(sections[i].all) |->
                                    IF sections[i].all[k].title = show_title
                                       THEN sections[i].all[k].episodes
                                       ELSE <<>>])
                   ELSE <<>>])

\* the items of a result that are episodes of the shows titled show_title
ItemsOfShow(items, show_title) ==
    SelectSeq(items, LAMBDA item : item.grandparentTitle = show_title)

\* C7: a show of the full-series set contributes all its N episodes, in
\* enumeration order, whatever their titles; a show in neither table
\* contributes nothing.
C7_SeriesContributesEveryEpisode ==
    call.fn = "find_musical_episodes" =>
        \A show_title \in MusicalShowTitles :
            /\ show_title \in Range(MUSICAL_SERIES) =>
                  /\ ItemsOfShow(call.ret, show_title)
                         = EpisodesOfShowsTitled(library, show_title)
                  /\ Len(ItemsOfShow(call.ret, show_title))
                         = Len(EpisodesOfShowsTitled(library, show_title))
            /\ (show_title \notin Range(MUSICAL_SERIES)
                /\ show_title \notin DOMAIN MUSICAL_EPISODES) =>
                  ItemsOfShow(call.ret, show_title) = <<>>

\* a musical series with two episodes, none of them titled
C7_Witness ==
    /\ call.fn = "find_musical_episodes"
    /\ \E i \in 1..Len(library) :
          /\ library[i].type = "show"
          /\ \E k \in 1..Len(library[i].all) :
                /\ library[i].all[k].title \in Range(MUSICAL_SERIES)
                /\ Len(library[i].all[k].episodes) = 2
                /\ \A n \in 1..2 : library[i].all[k].episodes[n].title = None
    /\ Len(call.ret) = 2

\* a fragment of the show occurs in the episode's title, letter case aside
HasFragment(show_title, episode) ==
    \E target \in Range(MUSICAL_EPISODES[show_title]) :
        Contains(LowerStr(target), LowerStr(OrEmpty(episode.title)))

\* C10: for a show of the specific-episode table (not a full series), the
\* episodes returned are exactly its episodes with a fragment in the title,
\* each once per enumeration, however many fragments match.
C10_SpecificEpisodesOncePerMatch ==
    call.fn = "find_musical_episodes" =>
        \A show_title \in DOMAIN MUSICAL_EPISODES \ Range(MUSICAL_SERIES) :
            ItemsOfShow(call.ret, show_title)
                = SelectSeq(EpisodesOfShowsTitled(library, show_title),
                            LAMBDA episode : HasFragment(show_title, episode))

\* an episode of Psych whose title holds both fragments is returned once
C10_Witness ==
    /\ call.fn = "find_musical_episodes"
    /\ \E i \in 1..Len(library) :
          /\ library[i].type = "show"
          /\ \E k \in 1..Len(library[i].all) :
                /\ library[i].all[k].title = "Psych"
                /\ Len(library[i].all[k].episodes) = 1
                /\ \A target \in Range(MUSICAL_EPISODES["Psych"]) :
                      Contains(LowerStr(target),
                               LowerStr(OrEmpty(library[i].all[k].episodes[1].title)))
    /\ Len(call.ret) = 1


(***************************************************************************)
(* Claims C2, C3 and C4.                                                   *)
(***************************************************************************)
Requests(op) == SelectSeq(trace, LAMBDA e : e.op = op)

Titled(pls, name) == SelectSeq(pls, LAMBDA p : p.title = name)

\* C2 as written: with an empty item list create_or_update_playlist changes
\* nothing on the server, issues no request and returns None.  The code
\* deletes an existing playlist of that name first.
C2_EmptyItemsNoMutation ==
    (call.fn = "create_or_update_playlist" /\ call.items = <<>>) =>
        /\ playlists = call.before
        /\ trace = <<>>
        /\ call.ret = None

C1_DeleteOnlyAfterConfirmation ==
    call.fn = "create" =>
        /\ \A i \in 1..Len(trace) :
              trace[i].op = "delete" =>
                  \E j \in 1..(i - 1) :
                      trace[j].op = "confirm" /\ trace[j].answer = TRUE
        /\ (\E j \in 1..Len(trace) :
               trace[j].op = "confirm" /\ trace[j].answer = FALSE)
              => playlists = call.before

\* C8: a create run whose selection is empty ends normally without a delete
\* or a create, the playlists untouched; create_or_update_playlist is only
\* ever called with a non-empty item list.
C8_EmptySelectionEndsRun ==
    call.fn = "create" =>
        /\ (call.connects /\ call.items = <<>>) =>
              /\ call.out = "no_content"
              /\ call.exit = 0
              /\ ~call.called
              /\ trace = <<>>
              /\ playlists = call.before
        /\ call.called => call.items # <<>>

\* nothing is selected, no dry run, and a playlist of the target name exists
C8_Witness ==
    /\ call.fn = "create"
    /\ call.connects
    /\ ~call.dry_run
    /\ library # <<>>
    /\ call.items = <<>>
    /\ Titled(call.before, PlaylistName(call.name, call.theme)) # <<>>
    /\ call.out = "no_content"

\* C9: a create run with --dry-run issues no delete and no create and leaves
\* the playlists as they were.
C9_DryRunChangesNothing ==
    (call.fn = "create" /\ call.dry_run) =>
        /\ Requests("delete") = <<>>
        /\ Requests("create") = <<>>
        /\ playlists = call.before

\* a dry run with items selected and a playlist of the target name present
C9_Witness ==
    /\ call.fn = "create"
    /\ call.dry_run
    /\ call.items # <<>>
    /\ Titled(call.before, PlaylistName(call.name, call.theme)) # <<>>
    /\ call.out = "dry_run"

=============================================================================
